---- MODULE Spec2Model ----
(***************************************************************************)
(* A model of src/main.py: a batch job that looks up every image URL of an *)
(* input mapping on Google Lens, one Selenium session per item, on a       *)
(* ThreadPoolExecutor, and appends the collected rows to a CSV file.       *)
(*                                                                         *)
(* The coordinator (main and process_images_concurrently) is one process,  *)
(* each submitted future is one task.  The Selenium calls are the          *)
(* environment: every call picks one of the outcomes the library can       *)
(* produce (a value, a TimeoutException, another WebDriverException).      *)
(***************************************************************************)
EXTENDS Integers, Sequences, FiniteSets, TLC

\* ------------------------------------------------------------------ bounds

\* The largest input mapping explored.
MaxItems == 2

\* The largest input mapping explored where a claim needs three items at
\* once (one failing, one succeeding, one raising).
MaxItemsWide == 3

\* The largest worker pool explored (ThreadPoolExecutor rejects a pool
\* size below 1 before any task is submitted, so pools start at 1).
MaxWorkers == 2

\* ------------------------------------------------------- program constants

\* init_driver(retries=3)
InitRetries == 3

\* navigate_to_lens, wait_and_click_find_image_source and
\* extract_first_image_metadata are all called with retries=1
StepRetries == 1

\* ------------------------------------------------------------- the input

\* The keys of the JSON object, in file order, and the URL of each key.
\* Keys of a JSON object loaded into a dict are distinct; URLs need not be.
InputIds == <<"a", "b", "c", "d">>
InputUrls == <<"http://x/1.png", "http://x/2.png", "http://x/1.png", "http://x/2.png">>

\* urls_data.items() for a mapping of n items
UrlsData(n) == [i \in 1..n |-> [id |-> InputIds[i], url |-> InputUrls[i]]]

\* ------------------------------------------------------- values and pages

\* Python's None as the value of a dict entry or of a CSV cell
None == "<None>"

\* What the first result entry of the page can look like when extraction
\* runs: complete, without its title element, without its source label,
\* without an href attribute, or not rendered at all within the wait.
Pages == {"full", "no_title", "no_source", "no_link", "no_entry"}

\* image_data is None
NoMetadata == [kind |-> "None", position |-> 0, title |-> None, source |-> None, link |-> None]

\* The dict extract_first_image_metadata returns
MetadataDict(title, source, link) ==
    [kind |-> "dict", position |-> 1, title |-> title, source |-> source, link |-> link]

\* element.find_element(By.CSS_SELECTOR, sel) raises NoSuchElementException
\* when the sub-element is missing; it never returns a falsy value.
FindElementRaises(page) == page \in {"no_title", "no_source"}

\* The try body of extract_first_image_metadata raises: the wait for the
\* entry timed out, or a find_element of a sub-element raised.
ExtractRaises(page) == page = "no_entry" \/ FindElementRaises(page)

\* The dict returned when the try body does not raise.  get_attribute
\* returns None for a missing attribute.
ExtractedMetadata(page) ==
    MetadataDict("title", "source", IF page = "no_link" THEN None ELSE "link")

\* dict.get(key, default): the default is used only when the KEY is missing.
DictKeys(d) == IF d.kind = "dict" THEN {"position", "title", "source", "link"} ELSE {}
DictGet(d, key, default) == IF key \in DictKeys(d) THEN d[key] ELSE default

\* process_image returns None
NoRow == [kind |-> "None", id |-> "", url |-> "", position |-> 0,
          title |-> None, source |-> None, link |-> None]

\* Truthiness of a dict-or-None value: the dicts built here are never empty
Truthy(d) == d.kind = "dict"

\* A slip in process_image: the row is built with id and url exchanged
ProcessImageResult_Swapped(image_id, image_url, image_data) ==
    IF ~Truthy(image_data)
    THEN NoRow
    ELSE [kind |-> "dict", id |-> image_url, url |-> image_id,
          position |-> DictGet(image_data, "position", "N/A"),
          title |-> DictGet(image_data, "title", "N/A"),
          source |-> DictGet(image_data, "source", "N/A"),
          link |-> DictGet(image_data, "link", "N/A")]

\* process_image after get_first_image_metadata returned image_data
ProcessImageResult(image_id, image_url, image_data) ==
    IF ~Truthy(image_data)
    THEN NoRow
    ELSE [kind |-> "dict", id |-> image_id, url |-> image_url,
          position |-> DictGet(image_data, "position", "N/A"),
          title |-> DictGet(image_data, "title", "N/A"),
          source |-> DictGet(image_data, "source", "N/A"),
          link |-> DictGet(image_data, "link", "N/A")]

\* ------------------------------------------------------------ the CSV file

Header == <<"id", "url", "position", "title", "source", "link">>

\* str() of the position
IntStr(n) == IF n = 1 THEN "1" ELSE "0"

\* The csv writer writes None as the empty string and any other value as is
CsvCell(v) == IF v = None THEN "" ELSE v

\* DictWriter.writerow with the fixed fieldnames
CsvRow(row) == <<row.id, row.url, IntStr(row.position),
                 CsvCell(row.title), CsvCell(row.source), CsvCell(row.link)>>

\* writer.writerows(all_data)
RECURSIVE CsvRows(_)
CsvRows(rows) == IF rows = <<>> THEN <<>> ELSE <<CsvRow(Head(rows))>> \o CsvRows(Tail(rows))

\* A file left by an earlier run at the output path
StaleFile == <<Header, <<"z", "http://x/0.png", "1", "old", "old", "old">>>>

\* ------------------------------------------------------- the collaborator

\* The outcomes of the Selenium calls: webdriver.Chrome(options),
\* driver.get(lens_url), the wait for the no-image message, the wait for
\* the button and its click; extraction meets one of the Pages.
InitOutcomes == {"ok", "WebDriverException"}
NavigateOutcomes == {"ok", "TimeoutException", "Exception"}
CheckOutcomes == {"found", "TimeoutException", "WebDriverException"}
ClickOutcomes == {"ok", "Exception"}

\* The distinct URLs of the input
UrlSet == {InputUrls[i] : i \in 1..Len(InputUrls)}

\* A deterministic collaborator answers each kind of call for a URL always
\* the same way.  The answers to calls that are never made are fixed.
PassingScenario ==
    [init_driver |-> "ok", navigate_to_lens |-> "ok", check_no_image_error |-> "TimeoutException",
     wait_and_click |-> "ok", extract |-> "full"]

Scenarios ==
    {s \in [init_driver : InitOutcomes, navigate_to_lens : NavigateOutcomes,
            check_no_image_error : CheckOutcomes, wait_and_click : ClickOutcomes,
            extract : Pages] :
        /\ s.init_driver # "ok" => s.navigate_to_lens = "ok"
        /\ s.navigate_to_lens # "ok" => s.check_no_image_error = "TimeoutException"
        /\ s.check_no_image_error # "TimeoutException" => s.wait_and_click = "ok"
        /\ s.wait_and_click # "ok" => s.extract = "full"}

\* The collaborator that may answer any call in any way
FreeStub == [det |-> FALSE, of |-> [u \in UrlSet |-> PassingScenario]]

\* The deterministic collaborators for an input
DetStubs(data) ==
    {[det |-> TRUE, of |-> f] :
        f \in {g \in [UrlSet -> Scenarios] :
                 \A u \in UrlSet :
                    (\A i \in 1..Len(data) : data[i].url # u) => g[u] = PassingScenario}}

\* The deterministic collaborators that answer alike for every URL
UniformStubs == {[det |-> TRUE, of |-> [u \in UrlSet |-> s]] : s \in Scenarios}

\* ----------------------------------------------------------------- state

VARIABLES
    urls_data,    \* the loaded input mapping, as the sequence of its items
    max_workers,  \* the pool size given on the command line
    pc,           \* where the coordinator is
    csv_file,     \* the rows of the output file
    submitted,    \* how many futures have been submitted
    task,         \* the state of every future
    yielded,      \* the futures as_completed has handed to the loop
    all_data,     \* the accumulated result list
    error,        \* the exception leaving process_images_concurrently
    stub,         \* the collaborator: free, or a fixed outcome for every URL
    writes,       \* how many times the result list was appended to the file
    csv_lock,     \* who holds csv_lock
    sessions      \* the use made of the session each task opens

vars == <<urls_data, max_workers, pc, csv_file, submitted, task, yielded, all_data, error, stub,
          writes, csv_lock, sessions>>

N == Len(urls_data)
Tasks == 1..N

\* A future that was not submitted yet
NewTask == [st |-> "new", pc |-> "-", attempt |-> 0, driver |-> "none",
            image_data |-> NoMetadata, exc |-> "", result |-> NoRow,
            stopped_at |-> "-", check |-> "-", page |-> "-", trace |-> <<>>,
            handle |-> 0]

\* The session a task opens, before it is opened: which tasks called a step
\* on it, whether a step was called on it while it was not open, and how
\* many times its task opened a session
NoSession == [users |-> {}, stale_use |-> FALSE, opened |-> 0]

Running == {t \in Tasks : task[t].st = "running"}
Queued == {t \in Tasks : task[t].st = "queued"}
Finished == {t \in Tasks : task[t].st = "finished"}

\* The state when main has parsed its arguments and loaded the JSON file,
\* for the input mappings of at most max_items items
InitRun(max_items) ==
    /\ \E n \in 0..max_items : urls_data = UrlsData(n)
    /\ max_workers \in 1..MaxWorkers
    /\ pc = "main"
    /\ csv_file = StaleFile
    /\ submitted = 0
    /\ task = [t \in 1..Len(urls_data) |-> NewTask]
    /\ yielded = {}
    /\ all_data = <<>>
    /\ error = ""
    /\ writes = 0
    /\ csv_lock = {}
    /\ sessions = [t \in 1..Len(urls_data) |-> NoSession]

Init == InitRun(MaxItems) /\ stub = FreeStub

InitWide == InitRun(MaxItemsWide) /\ stub = FreeStub

\* Any collaborator, or one that answers alike for every URL
InitFair == InitRun(MaxItems) /\ stub \in {FreeStub} \cup UniformStubs

InitDet == InitRun(MaxItems) /\ stub \in DetStubs(urls_data)

\* ------------------------------------------------------------ coordinator

\* The header written with mode 'a': what the file held is kept
WriteHeader_Append ==
    /\ pc = "main"
    /\ csv_file' = csv_file \o <<Header>>
    /\ pc' = "submit"
    /\ UNCHANGED <<urls_data, max_workers, submitted, task, yielded, all_data, error, stub, writes, csv_lock, sessions>>

\* main: open(csv_file_path, 'w') truncates the file, writeheader()
WriteHeader ==
    /\ pc = "main"
    /\ csv_file' = <<Header>>
    /\ pc' = "submit"
    /\ UNCHANGED <<urls_data, max_workers, submitted, task, yielded, all_data, error, stub, writes, csv_lock, sessions>>

\* executor.submit(process_image, image_id, image_url, csv_file_path)
Submit ==
    /\ pc = "submit"
    /\ submitted < N
    /\ submitted' = submitted + 1
    /\ task' = [task EXCEPT ![submitted + 1].st = "queued"]
    /\ UNCHANGED <<urls_data, max_workers, pc, csv_file, yielded, all_data, error, stub, writes, csv_lock, sessions>>

\* all_data = [] once the list of futures is built
StartCollect ==
    /\ pc = "submit"
    /\ submitted = N
    /\ all_data' = <<>>
    /\ pc' = "collect"
    /\ UNCHANGED <<urls_data, max_workers, csv_file, submitted, task, yielded, error, stub, writes, csv_lock, sessions>>

\* as_completed hands over each finished future once
MayYield(f) == f \in Finished /\ f \notin yielded

\* A slip in the loop: all_data = [] inside it, so each result replaces
\* the list instead of extending it
Collect_ResetsList(f) ==
    /\ pc = "collect"
    /\ MayYield(f)
    /\ yielded' = yielded \cup {f}
    /\ IF task[f].exc # ""
       THEN /\ error' = task[f].exc
            /\ pc' = "shutdown"
            /\ UNCHANGED all_data
       ELSE /\ all_data' = IF Truthy(task[f].result) THEN <<task[f].result>> ELSE <<>>
            /\ UNCHANGED <<pc, error>>
    /\ UNCHANGED <<urls_data, max_workers, csv_file, submitted, task, stub, writes, csv_lock, sessions>>

\* One iteration of the as_completed loop: future.result() re-raises the
\* task's exception, which leaves the loop; a truthy result is appended.
Collect(f) ==
    /\ pc = "collect"
    /\ MayYield(f)
    /\ yielded' = yielded \cup {f}
    /\ IF task[f].exc # ""
       THEN /\ error' = task[f].exc
            /\ pc' = "shutdown"
            /\ UNCHANGED all_data
       ELSE /\ all_data' = IF Truthy(task[f].result)
                           THEN Append(all_data, task[f].result)
                           ELSE all_data
            /\ UNCHANGED <<pc, error>>
    /\ UNCHANGED <<urls_data, max_workers, csv_file, submitted, task, stub, writes, csv_lock, sessions>>

\* A slip in the loop: it runs over the futures that are done when it is
\* reached instead of waiting for every future
EndCollect_NoWait ==
    /\ pc = "collect"
    /\ \A f \in Tasks : ~MayYield(f)
    /\ pc' = "shutdown"
    /\ UNCHANGED <<urls_data, max_workers, csv_file, submitted, task, yielded, all_data, error, stub, writes, csv_lock, sessions>>

\* as_completed is exhausted
EndCollect ==
    /\ pc = "collect"
    /\ yielded = Tasks
    /\ pc' = "shutdown"
    /\ UNCHANGED <<urls_data, max_workers, csv_file, submitted, task, yielded, all_data, error, stub, writes, csv_lock, sessions>>

\* shutdown(wait=False): the with block is left at once
ShutdownMayReturn_NoWait == TRUE

\* shutdown(cancel_futures=True): the with block is left when the running
\* tasks are done, and the queued ones never run
ShutdownMayReturn_CancelsQueued == Running = {}

\* The with block of the executor exits through shutdown(wait=True): it
\* returns when every submitted task has run, also when an exception is
\* on its way out.
ShutdownMayReturn == Finished = Tasks

\* The executor's exit returns and the exception of future.result() is
\* swallowed: the run goes on to the final append
Shutdown_Swallows ==
    /\ pc = "shutdown"
    /\ ShutdownMayReturn
    /\ pc' = "write"
    /\ UNCHANGED <<urls_data, max_workers, csv_file, submitted, task, yielded, all_data, error, stub, writes, csv_lock, sessions>>

Shutdown ==
    /\ pc = "shutdown"
    /\ ShutdownMayReturn
    /\ pc' = IF error = "" THEN "write" ELSE "failed"
    /\ UNCHANGED <<urls_data, max_workers, csv_file, submitted, task, yielded, all_data, error, stub, writes, csv_lock, sessions>>

\* with csv_lock: the coordinator takes the lock, which nobody else uses
AcquireCsvLock ==
    /\ pc = "write"
    /\ csv_lock = {}
    /\ csv_lock' = {"main"}
    /\ pc' = "locked"
    /\ UNCHANGED <<urls_data, max_workers, csv_file, submitted, task, yielded, all_data, error,
                   stub, writes, sessions>>

\* The append done without leaving the with block: the rows are written
\* again
WriteRows_Repeats ==
    /\ pc = "locked"
    /\ writes < 2
    /\ csv_file' = csv_file \o CsvRows(all_data)
    /\ writes' = writes + 1
    /\ UNCHANGED <<urls_data, max_workers, pc, submitted, task, yielded, all_data, error, stub,
                   csv_lock, sessions>>

\* open(csv_file_path, 'a'), writer.writerows(all_data), and the lock is
\* released on leaving the with block
WriteRows ==
    /\ pc = "locked"
    /\ csv_file' = csv_file \o CsvRows(all_data)
    /\ writes' = writes + 1
    /\ csv_lock' = csv_lock \ {"main"}
    /\ pc' = "saved"
    /\ UNCHANGED <<urls_data, max_workers, submitted, task, yielded, all_data, error, stub, sessions>>

\* main: logging.info("All data saved to CSV.")
LogSaved ==
    /\ pc = "saved"
    /\ pc' = "done"
    /\ UNCHANGED <<urls_data, max_workers, csv_file, submitted, task, yielded, all_data, error, stub, writes, csv_lock, sessions>>

\* ------------------------------------------------------------------ tasks

Min(S) == CHOOSE x \in S : \A y \in S : x <= y

\* The answers the collaborator may give task t at a step
Answers(t, step, all) ==
    IF stub.det THEN {stub.of[urls_data[t].url][step]} ELSE all

\* A pool that starts a thread per work item, whatever max_workers is
CanStart_NoLimit(t) ==
    /\ Queued # {}
    /\ t = Min(Queued)

\* A worker thread takes the oldest queued work item; the pool has at most
\* max_workers threads and each runs one work item at a time.
CanStart(t) ==
    /\ Queued # {}
    /\ t = Min(Queued)
    /\ Cardinality(Running) < max_workers

\* The sessions after task t has opened its own
Opened(t) == [sessions EXCEPT ![t].opened = @ + 1]

\* The sessions after task t has called a step on the driver it holds
Used(t) ==
    [sessions EXCEPT ![task[t].handle].users = @ \cup {t},
                     ![task[t].handle].stale_use = @ \/ task[task[t].handle].driver # "open"]

\* A worker begins process_image -> get_first_image_metadata -> init_driver
TaskStart(t) ==
    /\ CanStart(t)
    /\ task' = [task EXCEPT ![t].st = "running", ![t].pc = "init_driver", ![t].attempt = 0,
                            ![t].trace = <<"init_driver">>]
    /\ UNCHANGED <<urls_data, max_workers, pc, csv_file, submitted, yielded, all_data, error, stub, writes, csv_lock, sessions>>

\* A loop whose test is attempt <= retries: one iteration too many
NextAttempt_OffByOne(r, retries, out) ==
    IF r.attempt + 1 <= retries THEN [r EXCEPT !.attempt = @ + 1] ELSE out

\* A failing path that does not count the attempt
NextAttempt_NoIncrement(r, retries, out) ==
    IF r.attempt + 1 < retries THEN r ELSE out

\* The end of a failed iteration of a retry loop: attempt += 1, sleep, and
\* the loop test; r is the task in the loop, out the task after the loop.
NextAttempt(r, retries, out) ==
    IF r.attempt + 1 < retries THEN [r EXCEPT !.attempt = @ + 1] ELSE out

\* The future completes with the exception that left process_image
FutureRaised(r, exc, step) ==
    [r EXCEPT !.st = "finished", !.pc = "-", !.attempt = 0, !.exc = exc, !.stopped_at = step]

\* A step that raises when its retries are used up, as init_driver does,
\* instead of reporting failure
ReturnNone_Raises(r, step) ==
    [r EXCEPT !.exc = "Exception", !.pc = "finally", !.attempt = 0, !.stopped_at = step]

\* get_first_image_metadata returns None from inside its try
ReturnNone(r, step) ==
    [r EXCEPT !.image_data = NoMetadata, !.pc = "finally", !.attempt = 0, !.stopped_at = step]

\* init_driver handing out one driver kept for all tasks: a task gets the
\* session another task has open, when there is one
InitDriver_SharedDriver(t) ==
    /\ task[t].st = "running"
    /\ task[t].pc = "init_driver"
    /\ task[t].attempt < InitRetries
    /\ \E o \in Answers(t, "init_driver", InitOutcomes) :
          LET open == {u \in 1..Len(task) : task[u].driver = "open"}
              h == IF open = {} THEN t ELSE CHOOSE u \in open : TRUE
          IN  /\ task' = [task EXCEPT ![t] =
                            IF o = "ok"
                            THEN [@ EXCEPT !.driver = "open", !.handle = h,
                                           !.pc = "navigate_to_lens", !.attempt = 0,
                                           !.trace = Append(@, "navigate_to_lens")]
                            ELSE NextAttempt(@, InitRetries,
                                             FutureRaised(@, "Exception", "init_driver"))]
              /\ sessions' = IF o = "ok" /\ h = t THEN Opened(t) ELSE sessions
    /\ UNCHANGED <<urls_data, max_workers, pc, csv_file, submitted, yielded, all_data, error, stub,
                   writes, csv_lock>>

\* One iteration of init_driver's loop: webdriver.Chrome(options) returns a
\* driver, or raises WebDriverException, which is counted; after the last
\* attempt init_driver raises Exception.  The call is outside the try of
\* get_first_image_metadata, so the exception leaves the task.
InitDriver(t) ==
    /\ task[t].st = "running"
    /\ task[t].pc = "init_driver"
    /\ task[t].attempt < InitRetries
    /\ \E o \in Answers(t, "init_driver", InitOutcomes) :
          /\ task' = [task EXCEPT ![t] =
                        IF o = "ok"
                        THEN [@ EXCEPT !.driver = "open", !.handle = t,
                                       !.pc = "navigate_to_lens", !.attempt = 0,
                                       !.trace = Append(@, "navigate_to_lens")]
                        ELSE NextAttempt(@, InitRetries,
                                         FutureRaised(@, "Exception", "init_driver"))]
          /\ sessions' = IF o = "ok" THEN Opened(t) ELSE sessions
    /\ UNCHANGED <<urls_data, max_workers, pc, csv_file, submitted, yielded, all_data, error, stub,
                   writes, csv_lock>>

\* get_first_image_metadata ignoring what navigate_to_lens returns: the
\* no-result check is called after a failed navigation
NavigateToLens_ResultIgnored(t) ==
    /\ task[t].st = "running"
    /\ task[t].pc = "navigate_to_lens"
    /\ task[t].attempt < StepRetries
    /\ \E o \in Answers(t, "navigate_to_lens", NavigateOutcomes) :
          task' = [task EXCEPT ![t] =
                     IF o = "ok"
                     THEN [@ EXCEPT !.pc = "check_no_image_error", !.attempt = 0,
                                    !.trace = Append(@, "check_no_image_error")]
                     ELSE NextAttempt(@, StepRetries,
                                      [@ EXCEPT !.pc = "check_no_image_error", !.attempt = 0,
                                                !.stopped_at = "navigate_to_lens",
                                                !.trace = Append(@, "check_no_image_error")])]
    /\ sessions' = Used(t)
    /\ UNCHANGED <<urls_data, max_workers, pc, csv_file, submitted, yielded, all_data, error, stub,
                   writes, csv_lock>>

\* One iteration of navigate_to_lens's loop: driver.get returns, times out
\* or raises something else; both failures are counted, and after the last
\* attempt the function returns False.
NavigateToLens(t) ==
    /\ task[t].st = "running"
    /\ task[t].pc = "navigate_to_lens"
    /\ task[t].attempt < StepRetries
    /\ \E o \in Answers(t, "navigate_to_lens", NavigateOutcomes) :
          task' = [task EXCEPT ![t] =
                     IF o = "ok"
                     THEN [@ EXCEPT !.pc = "check_no_image_error", !.attempt = 0,
                                    !.trace = Append(@, "check_no_image_error")]
                     ELSE NextAttempt(@, StepRetries, ReturnNone(@, "navigate_to_lens"))]
    /\ sessions' = Used(t)
    /\ UNCHANGED <<urls_data, max_workers, pc, csv_file, submitted, yielded, all_data, error, stub,
                   writes, csv_lock>>

\* get_first_image_metadata ignoring what check_no_image_error returns
CheckNoImageError_Ignored(t) ==
    /\ task[t].st = "running"
    /\ task[t].pc = "check_no_image_error"
    /\ \E o \in Answers(t, "check_no_image_error", CheckOutcomes) :
          task' = [task EXCEPT ![t] =
                     IF o \in {"found", "TimeoutException"}
                     THEN [@ EXCEPT !.check = o, !.pc = "wait_and_click", !.attempt = 0,
                                    !.trace = Append(@, "wait_and_click")]
                     ELSE [@ EXCEPT !.check = o, !.exc = o, !.pc = "finally",
                                    !.stopped_at = "check_no_image_error"]]
    /\ sessions' = Used(t)
    /\ UNCHANGED <<urls_data, max_workers, pc, csv_file, submitted, yielded, all_data, error, stub,
                   writes, csv_lock>>

\* The exceptions of its wait that check_no_image_error catches
CheckCatches(o) == o = "TimeoutException"

\* check_no_image_error: the element is found (True), the wait times out
\* (False), or the wait raises another WebDriverException, which the
\* function does not catch and get_first_image_metadata only passes on.
CheckNoImageError(t) ==
    /\ task[t].st = "running"
    /\ task[t].pc = "check_no_image_error"
    /\ \E o \in Answers(t, "check_no_image_error", CheckOutcomes) :
          task' = [task EXCEPT ![t] =
                     IF o = "found"
                     THEN ReturnNone([@ EXCEPT !.check = o], "no_image")
                     ELSE IF CheckCatches(o)
                     THEN [@ EXCEPT !.check = o, !.pc = "wait_and_click", !.attempt = 0,
                                    !.trace = Append(@, "wait_and_click")]
                     ELSE [@ EXCEPT !.check = o, !.exc = o, !.pc = "finally",
                                    !.stopped_at = "check_no_image_error"]]
    /\ sessions' = Used(t)
    /\ UNCHANGED <<urls_data, max_workers, pc, csv_file, submitted, yielded, all_data, error, stub,
                   writes, csv_lock>>

\* One iteration of wait_and_click_find_image_source's loop
WaitAndClick(t) ==
    /\ task[t].st = "running"
    /\ task[t].pc = "wait_and_click"
    /\ task[t].attempt < StepRetries
    /\ \E o \in Answers(t, "wait_and_click", ClickOutcomes) :
          task' = [task EXCEPT ![t] =
                     IF o = "ok"
                     THEN [@ EXCEPT !.pc = "extract", !.attempt = 0,
                                    !.trace = Append(@, "extract")]
                     ELSE NextAttempt(@, StepRetries, ReturnNone(@, "wait_and_click"))]
    /\ sessions' = Used(t)
    /\ UNCHANGED <<urls_data, max_workers, pc, csv_file, submitted, yielded, all_data, error, stub,
                   writes, csv_lock>>

\* One iteration of extract_first_image_metadata's loop on a page
ExtractFirstImageMetadata(t) ==
    /\ task[t].st = "running"
    /\ task[t].pc = "extract"
    /\ task[t].attempt < StepRetries
    /\ \E page \in Answers(t, "extract", Pages) :
          task' = [task EXCEPT ![t] =
                     IF ExtractRaises(page)
                     THEN NextAttempt([@ EXCEPT !.page = page], StepRetries,
                                      ReturnNone([@ EXCEPT !.page = page], "extract"))
                     ELSE [@ EXCEPT !.image_data = ExtractedMetadata(page), !.page = page,
                                    !.pc = "finally", !.attempt = 0]]
    /\ sessions' = Used(t)
    /\ UNCHANGED <<urls_data, max_workers, pc, csv_file, submitted, yielded, all_data, error, stub,
                   writes, csv_lock>>

\* driver.quit() after the try instead of in a finally: an exception
\* passes it by
Quit_NoFinally(t) ==
    /\ task[t].st = "running"
    /\ task[t].pc = "finally"
    /\ task' = [task EXCEPT
                  ![t].driver = IF task[t].exc # "" THEN @ ELSE "quit",
                  ![t].trace = IF task[t].exc # "" THEN @ ELSE Append(@, "quit"),
                  ![t].st = "finished",
                  ![t].pc = "-",
                  ![t].result = IF task[t].exc # ""
                                THEN NoRow
                                ELSE ProcessImageResult(urls_data[t].id, urls_data[t].url,
                                                        task[t].image_data)]
    /\ sessions' = Used(t)
    /\ UNCHANGED <<urls_data, max_workers, pc, csv_file, submitted, yielded, all_data, error, stub,
                   writes, csv_lock>>

\* finally: driver.quit(), on a return and on an exception alike; then the
\* rest of process_image.  Its return value, or the exception passing
\* through it, completes the future.
Quit(t) ==
    /\ task[t].st = "running"
    /\ task[t].pc = "finally"
    /\ task' = [task EXCEPT
                  ![t].driver = "quit",
                  ![t].trace = Append(@, "quit"),
                  ![t].st = "finished",
                  ![t].pc = "-",
                  ![t].result = IF task[t].exc # ""
                                THEN NoRow
                                ELSE ProcessImageResult(urls_data[t].id, urls_data[t].url,
                                                        task[t].image_data)]
    /\ sessions' = Used(t)
    /\ UNCHANGED <<urls_data, max_workers, pc, csv_file, submitted, yielded, all_data, error, stub,
                   writes, csv_lock>>

Next ==
    \/ WriteHeader
    \/ Submit
    \/ StartCollect
    \/ \E f \in Tasks : Collect(f)
    \/ EndCollect
    \/ Shutdown
    \/ AcquireCsvLock
    \/ WriteRows
    \/ LogSaved
    \/ \E t \in Tasks : TaskStart(t)
    \/ \E t \in Tasks : InitDriver(t)
    \/ \E t \in Tasks : NavigateToLens(t)
    \/ \E t \in Tasks : CheckNoImageError(t)
    \/ \E t \in Tasks : WaitAndClick(t)
    \/ \E t \in Tasks : ExtractFirstImageMetadata(t)
    \/ \E t \in Tasks : Quit(t)

\* Any collaborator
Spec == Init /\ [][Next]_vars

\* Any collaborator, larger inputs
SpecWide == InitWide /\ [][Next]_vars

\* A deterministic collaborator
SpecDet == InitDet /\ [][Next]_vars

\* What the coordinator, the thread of main, does
Coordinator ==
    \/ WriteHeader
    \/ Submit
    \/ StartCollect
    \/ \E f \in Tasks : Collect(f)
    \/ EndCollect
    \/ Shutdown
    \/ AcquireCsvLock
    \/ WriteRows
    \/ LogSaved

\* What the pool does for work item t: a free worker thread takes it from
\* the queue and runs process_image
Worker(t) ==
    /\ t \in Tasks
    /\ \/ TaskStart(t)
       \/ InitDriver(t)
       \/ NavigateToLens(t)
       \/ CheckNoImageError(t)
       \/ WaitAndClick(t)
       \/ ExtractFirstImageMetadata(t)
       \/ Quit(t)

\* Every thread that can run gets to run, and every Selenium call returns
\* or raises: the waits have timeouts
Fairness == WF_vars(Coordinator) /\ \A t \in 1..MaxItems : WF_vars(Worker(t))

\* Fair scheduling of the threads
FairSpec == InitFair /\ [][Next]_vars /\ Fairness

\* ----------------------------------------------------------------- claims

\* The data rows of the output file: what follows the header
DataRows == IF csv_file = <<>> THEN <<>> ELSE Tail(csv_file)

\* main has returned or an exception has left it
RunEnded == pc \in {"done", "failed"}

\* The items whose get_first_image_metadata returned a metadata record
Succeeded == {t \in Finished : Truthy(task[t].image_data)}

\* The items whose fetch raised out of its task
RaisedTasks == {t \in Tasks : task[t].exc # ""}

\* C1, as claimed: at the end of every run the number of data rows is at
\* most N and equals the number of items whose fetch returned a metadata
\* record, session-initialization failures included.
C1_RowsEqualSuccesses ==
    RunEnded => /\ Len(DataRows) <= N
                /\ Len(DataRows) = Cardinality(Succeeded)

\* C1, amended: at the end of every run the number of data rows is at most
\* N; it equals the number of items whose fetch returned a metadata record
\* when no item's fetch raised out of its task, and it is 0 when one did.
C1_RowsEqualSuccessesUnlessRaised ==
    RunEnded => /\ Len(DataRows) <= N
                /\ RaisedTasks = {} => Len(DataRows) = Cardinality(Succeeded)
                /\ RaisedTasks # {} => Len(DataRows) = 0

\* A run that ended normally with one row for two items
C1_Witness ==
    /\ pc = "done"
    /\ N = 2
    /\ Cardinality(Succeeded) = 1
    /\ Len(DataRows) = 1

\* The (id, url) pair is the one of an input item whose fetch returned a record
FromSucceededItem(id, url) ==
    \E i \in Tasks : /\ urls_data[i].id = id
                     /\ urls_data[i].url = url
                     /\ i \in Succeeded

\* C2: in every state every record of the accumulated list, and every data
\* row written to the file, carries the (id, url) pair of exactly one input
\* item, that item's fetch returned a metadata record, and no two rows
\* carry the same id.
C2_RowsMatchInput ==
    /\ \A k \in 1..Len(all_data) : FromSucceededItem(all_data[k].id, all_data[k].url)
    /\ \A k, l \in 1..Len(all_data) : k # l => all_data[k].id # all_data[l].id
    /\ pc # "main" =>
          /\ \A k \in 1..Len(DataRows) : FromSucceededItem(DataRows[k][1], DataRows[k][2])
          /\ \A k, l \in 1..Len(DataRows) : k # l => DataRows[k][1] # DataRows[l][1]

\* Two tasks ran side by side, finished in the reverse of the input order,
\* and both rows are in the file
C2_Witness ==
    /\ pc = "done"
    /\ max_workers = 2
    /\ Len(DataRows) = 2
    /\ DataRows[1][1] = "b"
    /\ DataRows[2][1] = "a"

\* The optional fields of a metadata record
OptionalFields == {"title", "source", "link"}

\* C3, as claimed: in every row built from a metadata record an optional
\* field that is None in the record is the string N/A, and no cell of a
\* written data row is empty or None.
C3_MissingFieldIsNA ==
    /\ \A t \in Finished :
          Truthy(task[t].result) =>
             \A f \in OptionalFields :
                task[t].image_data[f] = None => task[t].result[f] = "N/A"
    /\ pc = "done" =>
          \A k \in 1..Len(DataRows) : \A c \in 4..6 : DataRows[k][c] \notin {"", None}

\* The item has a data row in the file
HasRow(t) == \E k \in 1..Len(DataRows) : DataRows[k][1] = urls_data[t].id

\* The task has called the step
InTrace(t, step) == \E k \in 1..Len(task[t].trace) : task[t].trace[k] = step

\* C4, as claimed: when the first result entry renders without its title
\* element, its source label or its link attribute, extraction returns a
\* record with that field absent and the others populated, the item is not
\* failed, and the output has a row for it, with source N/A when the source
\* label is the missing one.
C4_MissingSubElementTolerated ==
    \A t \in Finished :
       task[t].page \in {"no_title", "no_source", "no_link"} =>
          /\ Truthy(task[t].image_data)
          /\ task[t].image_data.title = (IF task[t].page = "no_title" THEN None ELSE "title")
          /\ task[t].image_data.source = (IF task[t].page = "no_source" THEN None ELSE "source")
          /\ task[t].image_data.link = (IF task[t].page = "no_link" THEN None ELSE "link")
          /\ Truthy(task[t].result)
          /\ pc = "done" =>
                \E k \in 1..Len(DataRows) :
                   /\ DataRows[k][1] = urls_data[t].id
                   /\ task[t].page = "no_source" => DataRows[k][5] = "N/A"

\* The sessions that are open
OpenSessions == {t \in Tasks : task[t].driver = "open"}

\* C5: a session opened by get_first_image_metadata is closed when the
\* call has exited, whichever step succeeded, failed or raised: a finished
\* task holds no open session, and none is open after the run.
C5_SessionsClosed ==
    /\ \A t \in Finished : task[t].driver # "open"
    /\ \A t \in Finished : InTrace(t, "navigate_to_lens") => task[t].driver = "quit"
    /\ RunEnded => OpenSessions = {}

\* A fetch that raised after it had opened its session, and closed it
C5_Witness ==
    \E t \in Finished : /\ task[t].exc = "WebDriverException"
                        /\ task[t].stopped_at = "check_no_image_error"
                        /\ task[t].driver = "quit"

\* C6: in every state at most max_workers sessions are open
C6_OpenSessionsBounded == Cardinality(OpenSessions) <= max_workers

\* The pool is full of open sessions while another item waits
C6_Witness ==
    /\ Cardinality(OpenSessions) = max_workers
    /\ Queued # {}

\* What a deterministic collaborator makes of one item: its fetch raises,
\* or returns this metadata record or None
FetchRaises(sc) ==
    \/ sc.init_driver # "ok"
    \/ /\ sc.navigate_to_lens = "ok"
       /\ sc.check_no_image_error = "WebDriverException"

FetchMetadata(sc) ==
    IF /\ sc.init_driver = "ok"
       /\ sc.navigate_to_lens = "ok"
       /\ sc.check_no_image_error = "TimeoutException"
       /\ sc.wait_and_click = "ok"
       /\ ~ExtractRaises(sc.extract)
    THEN ExtractedMetadata(sc.extract)
    ELSE NoMetadata

ScenarioOf(i) == stub.of[urls_data[i].url]

\* The rows of the run that fetches the items one after the other
SequentialRows ==
    IF \E i \in Tasks : FetchRaises(ScenarioOf(i))
    THEN {}
    ELSE {CsvRow(ProcessImageResult(urls_data[i].id, urls_data[i].url,
                                    FetchMetadata(ScenarioOf(i)))) :
             i \in {j \in Tasks : Truthy(FetchMetadata(ScenarioOf(j)))}}

\* C7: with a collaborator whose answers are a function of the URL, the set
\* of data rows at the end of a run is the one of the sequential run, for
\* every pool size and every interleaving; only the order may differ.
C7_RowSetIndependentOfPool ==
    RunEnded => /\ {DataRows[k] : k \in 1..Len(DataRows)} = SequentialRows
                /\ Len(DataRows) = Cardinality(SequentialRows)

\* A run on two workers whose rows are not in the order of the input
C7_Witness ==
    /\ stub.det
    /\ pc = "done"
    /\ max_workers = 2
    /\ Len(DataRows) >= 2
    /\ DataRows[1][1] = "b"

\* C8, as claimed: an error raised by the collaborator in a step after the
\* session was opened is turned into an absent result and never becomes
\* the exception of the task's future.
C8_StepErrorsCaught ==
    \A t \in Tasks : task[t].driver # "none" => task[t].exc = ""

\* The item's navigation, click or extraction failed after its retries
StepFailed(t) ==
    /\ t \in Finished
    /\ task[t].stopped_at \in {"navigate_to_lens", "wait_and_click", "extract"}

\* C9, as claimed: an item whose navigation, click or extraction failed
\* yields None and no row, and the rows of all other items whose fetch
\* succeeded are written at the end of the run.
C9_OtherRowsWritten ==
    RunEnded =>
       \A t \in Tasks :
          StepFailed(t) =>
             /\ ~Truthy(task[t].image_data)
             /\ ~Truthy(task[t].result)
             /\ ~HasRow(t)
             /\ \A s \in Succeeded \ {t} : HasRow(s)

\* C9, amended: an item whose navigation, click or extraction failed
\* yields None, raises nothing and gets no row; the rows of all other items
\* whose fetch succeeded are written at the end of the run unless some
\* item's fetch raised out of its task, and then no row is written.
C9_OtherRowsWrittenUnlessRaised ==
    \A t \in Tasks :
       StepFailed(t) =>
          /\ task[t].exc = ""
          /\ ~Truthy(task[t].image_data)
          /\ ~Truthy(task[t].result)
          /\ \A k \in 1..Len(all_data) : all_data[k].id # urls_data[t].id
          /\ RunEnded =>
                /\ ~HasRow(t)
                /\ RaisedTasks = {} => \A s \in Succeeded \ {t} : HasRow(s)
                /\ RaisedTasks # {} => DataRows = <<>>

\* A run of three items that ended normally with a failed item and the
\* rows of the two others
C9_Witness ==
    /\ pc = "done"
    /\ N = 3
    /\ Len(DataRows) = 2
    /\ \E t \in Tasks : StepFailed(t) /\ task[t].stopped_at = "wait_and_click"
    /\ \E s \in Succeeded : HasRow(s)

\* C10: when the no-image element is found the fetch returns None without
\* calling the click or the extraction, and for the input {a, b} with a
\* match for a and the no-image page for b the output has exactly one data
\* row, the one of a.
C10_NoMatchGivesNoRow ==
    /\ \A t \in Tasks :
          task[t].check = "found" =>
             /\ ~InTrace(t, "wait_and_click")
             /\ ~InTrace(t, "extract")
             /\ ~Truthy(task[t].image_data)
             /\ task[t].exc = ""
             /\ t \in Finished => ~Truthy(task[t].result)
    /\ (RunEnded /\ N = 2 /\ 1 \in Succeeded /\ task[2].check = "found") =>
          /\ Len(DataRows) = 1
          /\ DataRows[1][1] = "a"

\* The run of the scenario has ended
C10_Witness ==
    /\ pc = "done"
    /\ N = 2
    /\ 1 \in Succeeded
    /\ task[2].check = "found"
    /\ DataRows = <<CsvRow(task[1].result)>>

\* The tasks whose init_driver failed on every attempt
InitExhausted == {t \in Tasks : task[t].stopped_at = "init_driver"}

\* C11: once the session initialization of some task has failed on every
\* attempt, the final append and the "All data saved" message are never
\* reached, the file holds the header only, and a run that has ended has
\* ended with the error.
C11_InitFailureAbortsRun ==
    InitExhausted # {} =>
       /\ pc \notin {"write", "locked", "saved", "done"}
       /\ writes = 0
       /\ csv_file = <<Header>>
       /\ RunEnded => pc = "failed" /\ error # ""

\* A run has ended by the error of an exhausted initialization
C11_Witness ==
    /\ pc = "failed"
    /\ error = "Exception"
    /\ \E t \in InitExhausted : task[t].exc = "Exception" /\ task[t].driver = "none"
    /\ csv_file = <<Header>>

\* C12 as stated: in every run that has ended the collected records were
\* appended to the file exactly once, whatever the outcomes of the tasks.
C12_WrittenExactlyOnce == RunEnded => writes = 1

\* C12, amended: the collected records are never appended more than once,
\* and in a run that has ended they were appended exactly once when no task
\* raised and not at all when some task raised.
C12_WrittenOnceUnlessRaised ==
    /\ writes <= 1
    /\ RunEnded => writes = (IF RaisedTasks = {} THEN 1 ELSE 0)
    /\ pc = "done" => RaisedTasks = {}

\* A run with a failed fetch and a successful one has ended with its one
\* append
C12_Witness ==
    /\ pc = "done"
    /\ writes = 1
    /\ \E t \in Tasks : StepFailed(t)
    /\ Succeeded # {}

\* process_images_concurrently has left the with block of the executor,
\* to append and return or with an exception
LeftExecutor == pc \in {"write", "locked", "saved", "done", "failed"}

\* No task is pending or running when the executor has been left or a data
\* row of this run is in the file, and only the coordinator ever holds
\* csv_lock
C13_AllTasksFinishedFirst ==
    /\ LeftExecutor => Finished = Tasks
    /\ ((pc # "main" /\ DataRows # <<>>) \/ writes > 0) => Finished = Tasks
    /\ csv_lock \subseteq {"main"}
    /\ Cardinality(csv_lock) <= 1

\* A step that changes the file is a step of the coordinator, holding
\* csv_lock for the append, and changes no task
C13_OnlyCoordinatorWrites ==
    csv_file' # csv_file =>
       /\ pc \in {"main", "locked"}
       /\ pc = "locked" => csv_lock = {"main"}
       /\ task' = task

StepOrder == <<"init_driver", "navigate_to_lens", "check_no_image_error", "wait_and_click",
               "extract">>

\* s is an initial part of q
IsPrefix(s, q) == Len(s) <= Len(q) /\ \A k \in 1..Len(s) : s[k] = q[k]

\* The release is the last step task t started
Released(t) == task[t].trace # <<>> /\ task[t].trace[Len(task[t].trace)] = "quit"

\* The steps task t started before the release
StepsBeforeRelease(t) ==
    IF Released(t) THEN SubSeq(task[t].trace, 1, Len(task[t].trace) - 1) ELSE task[t].trace

\* The step at which a fetch stopped
StoppedStep(t) ==
    IF task[t].stopped_at = "no_image" THEN "check_no_image_error" ELSE task[t].stopped_at

\* C14: the steps a fetch has started are an initial part of acquisition,
\* navigation, no-result check, click, extraction, followed at most by the
\* release, which is the last event and needs an acquired session; a fetch
\* is in the last step it started, and the step at which a fetch stopped
\* is the last one it started before the release.
C14_StepsInOrder ==
    \A t \in Tasks :
       LET steps == StepsBeforeRelease(t) IN
       /\ IsPrefix(steps, StepOrder)
       /\ Released(t) => Len(steps) >= 2 /\ task[t].st = "finished" /\ task[t].driver = "quit"
       /\ task[t].pc \in {"init_driver", "navigate_to_lens", "check_no_image_error",
                          "wait_and_click", "extract"}
             => steps # <<>> /\ steps[Len(steps)] = task[t].pc /\ task[t].stopped_at = "-"
       /\ task[t].stopped_at # "-" => steps # <<>> /\ steps[Len(steps)] = StoppedStep(t)
       /\ task[t].pc = "finally" =>
             /\ ~Released(t)
             /\ task[t].driver = "open"
             /\ task[t].stopped_at = "-" => steps = StepOrder /\ Truthy(task[t].image_data)

\* A fetch went through every step and released its session, and another
\* stopped at a failed click and released its session
C14_Witness ==
    /\ \E t \in Tasks : task[t].trace = StepOrder \o <<"quit">>
    /\ \E t \in Tasks : /\ task[t].stopped_at = "wait_and_click"
                        /\ task[t].trace = SubSeq(StepOrder, 1, 4) \o <<"quit">>

\* The steps with a retry loop that report failure by their return value
RetrySteps == {"navigate_to_lens", "wait_and_click", "extract"}

\* The number of attempts the loop of a step may make
RetriesOf(step) == IF step = "init_driver" THEN InitRetries ELSE StepRetries

\* A task inside a retry loop has failed fewer attempts than the loop allows
C15_AttemptsBounded ==
    \A t \in Tasks :
       task[t].pc \in RetrySteps \cup {"init_driver"} =>
          /\ task[t].attempt >= 0
          /\ task[t].attempt < RetriesOf(task[t].pc)

\* What one attempt of a retry loop does: it succeeds and the loop is left
\* with the result of this first success, or it fails and is counted, and
\* then the loop is repeated if attempts remain and left with the failure
\* (the fatal exception for init_driver, None for the others) exactly when
\* this was the last attempt.
C15_AttemptStep ==
    \A t \in Tasks :
       (task[t].pc \in RetrySteps \cup {"init_driver"} /\ task'[t] # task[t]) =>
          LET step == task[t].pc
              a == task[t].attempt
              retried == /\ task'[t].pc = step
                         /\ task'[t].attempt = a + 1
                         /\ a + 1 < RetriesOf(step)
                         /\ task'[t].driver = task[t].driver
              gave_up == /\ a + 1 = RetriesOf(step)
                         /\ task'[t].stopped_at = step
                         /\ IF step = "init_driver"
                            THEN /\ task'[t].exc = "Exception"
                                 /\ task'[t].st = "finished"
                                 /\ task'[t].driver = "none"
                            ELSE /\ task'[t].exc = ""
                                 /\ task'[t].pc = "finally"
                                 /\ ~Truthy(task'[t].image_data)
              succeeded == /\ task'[t].stopped_at = "-"
                           /\ task'[t].exc = ""
                           /\ task'[t].pc \notin {step, "-"}
                           /\ task'[t].driver = "open"
                           /\ step = "init_driver" => task[t].driver = "none"
          IN  retried \/ gave_up \/ succeeded

C16_HeaderFirstAndOnce ==
    /\ pc = "main" => submitted = 0 /\ \A t \in Tasks : task[t].st = "new"
    /\ pc # "main" =>
          /\ csv_file # <<>>
          /\ csv_file[1] = Header
          /\ \A k \in 2..Len(csv_file) : csv_file[k] # Header /\ Len(csv_file[k]) = Len(Header)
          /\ DataRows \in {<<>>, CsvRows(all_data)}
          /\ writes = 0 => DataRows = <<>>

\* The file of a run over a stale file, with the header and two rows
C16_Witness ==
    /\ pc = "done"
    /\ Len(csv_file) = 3
    /\ csv_file[1] = Header
    /\ StaleFile[2] \notin {csv_file[2], csv_file[3]}

\* C17: the session a task opens is used by that task only and only while
\* it is open, a task opens at most one session, and the driver a task
\* holds is the one it opened.
C17_SessionsNotShared ==
    \A t \in Tasks :
       /\ sessions[t].users \subseteq {t}
       /\ ~sessions[t].stale_use
       /\ sessions[t].opened <= 1
       /\ task[t].handle \in {0, t}
       /\ task[t].handle = t <=> task[t].driver # "none"
       /\ sessions[t].opened = 1 <=> task[t].driver # "none"
       /\ sessions[t].users # {} => sessions[t].opened = 1

\* Two tasks work at the same time, each on the session it opened
C17_Witness ==
    /\ N = 2
    /\ \A t \in Tasks : /\ task[t].driver = "open"
                        /\ sessions[t].users = {t}
                        /\ task[t].pc \in {"wait_and_click", "extract"}

\* C18: when the exception of a task has left process_images_concurrently,
\* every submitted task has run to its end, every session opened has been
\* closed, and no row is in the file, not those of the tasks that
\* succeeded either; until then the exception waits in the executor's exit.
C18_OthersFinishThenRowsDropped ==
    /\ error # "" => pc \in {"shutdown", "failed"} /\ RaisedTasks # {}
    /\ pc = "failed" =>
          /\ error # ""
          /\ submitted = N
          /\ \A t \in Tasks : task[t].st = "finished"
          /\ OpenSessions = {}
          /\ \A t \in Tasks : task[t].driver \in {"none", "quit"}
          /\ DataRows = <<>>
          /\ writes = 0

\* A run ended by the exception of one task after another task succeeded
C18_Witness ==
    /\ pc = "failed"
    /\ N = 2
    /\ \E t \in Succeeded : Truthy(task[t].result) /\ task[t].driver = "quit"
    /\ \E t \in RaisedTasks : t \in yielded

\* The run has ended, every submitted task has completed and no task is
\* inside a retry loop
Terminated ==
    /\ RunEnded
    /\ submitted = N
    /\ Finished = Tasks
    /\ \A t \in Tasks : task[t].pc = "-" /\ task[t].attempt < InitRetries

\* C19: under fair scheduling every run reaches its end, normally or with
\* the error of a task, and stays there, with every submitted task
\* completed and every retry loop left.
C19_RunTerminates == <>[]Terminated

\* A run in which every initialization failed three times has ended
C19_Witness ==
    /\ Terminated
    /\ stub.det
    /\ N = 2
    /\ \A t \in Tasks : task[t].stopped_at = "init_driver"

====
